---- MODULE Spec2Model ----
(***************************************************************************)
(* NTP2: non-blocking NTP client (mitchsf/NTP2).                           *)
(*                                                                         *)
(* The model follows the most recent revision of NTP2.cpp, which is kept   *)
(* in src/unnamed/part_001 lines 208-470; its header is the second half of *)
(* src/README.md (lines 151-261).                                          *)
(*                                                                         *)
(* Number representation.  TLC's integers are 32-bit signed.  Every        *)
(* uint32_t of the program is therefore held as its two's complement       *)
(* image: the value v < 2^31 is held as v, the value v >= 2^31 as          *)
(* v - 2^32.  Unsigned arithmetic modulo 2^32 is WrapAdd/WrapSub on the    *)
(* images, the cast (int32_t)x is the image itself, unsigned order is ULT. *)
(* One call of the API is one atomic step: millis() returns the same       *)
(* reading for every read inside one call.                                 *)
(***************************************************************************)
EXTENDS Integers, Sequences, FiniteSets, TLC

\* ------------------------------------------------------------------------
\* 32-bit arithmetic on two's complement images
\* ------------------------------------------------------------------------

MaxInt == 2147483647

MinInt == -2147483647 - 1

\* a + b modulo 2^32
WrapAdd(a, b) ==
  IF b >= 0
    THEN IF a > MaxInt - b THEN (a + MinInt) + (b + MinInt) ELSE a + b
    ELSE IF a < MinInt - b THEN (a - MinInt) + (b - MinInt) ELSE a + b

WrapNeg(b) == IF b = MinInt THEN MinInt ELSE 0 - b

\* a - b modulo 2^32
WrapSub(a, b) == WrapAdd(a, WrapNeg(b))

\* unsigned a < b
ULT(a, b) == IF (a < 0) = (b < 0) THEN a < b ELSE b < 0

\* the image of the unsigned decimal literal m*10^6 + r (0 <= r < 10^6)
UL(m, r) ==
  IF m < 2147 \/ (m = 2147 /\ r <= 483647)
    THEN m * 1000000 + r
    ELSE (m - 4294) * 1000000 + (r - 967296)

\* the two 16-bit halves of an image
Hi16(x) == (x \div 65536) % 65536

Lo16(x) == x % 65536

\* ------------------------------------------------------------------------
\* Program constants (NTP2.h)
\* ------------------------------------------------------------------------

SEVENTYYEARS == UL(2208, 988800)

NTP_PACKET_SIZE == 48

NTP_RESPONSE_DELAY == 250

NTP_RETRY_DELAY == 30000

NTP_POLL_INTERVAL == 3600000

NTP_BAD_PACKET == 0

NTP_IDLE == 1

NTP_CONNECTED == 2

NTP_KOD_RATE == 16

NTP_KOD_DENY == 17

NTP_KOD_ACST == 18

NTP_KOD_AUTH == 19

NTP_KOD_AUTO == 20

NTP_KOD_BCST == 21

NTP_KOD_CRYP == 22

NTP_KOD_DROP == 23

NTP_KOD_RSTR == 24

NTP_KOD_INIT == 25

NTP_KOD_MCST == 26

NTP_KOD_NKEY == 27

NTP_KOD_NTSN == 28

NTP_KOD_RMOT == 29

NTP_KOD_STEP == 30

NTP_UNKNOWN_KOD == 32

\* The terminating '\0' of a C string, and of the kod[5] buffer.
NUL == "NUL"

\* KodEntry kodLookup[15]: the code as its four characters, and ret.
kodLookup ==
  << [code |-> <<"R","A","T","E">>, ret |-> 16],
     [code |-> <<"D","E","N","Y">>, ret |-> 17],
     [code |-> <<"A","C","S","T">>, ret |-> 18],
     [code |-> <<"A","U","T","H">>, ret |-> 19],
     [code |-> <<"A","U","T","O">>, ret |-> 20],
     [code |-> <<"B","C","S","T">>, ret |-> 21],
     [code |-> <<"C","R","Y","P">>, ret |-> 22],
     [code |-> <<"D","R","O","P">>, ret |-> 23],
     [code |-> <<"R","S","T","R">>, ret |-> 24],
     [code |-> <<"I","N","I","T">>, ret |-> 25],
     [code |-> <<"M","C","S","T">>, ret |-> 26],
     [code |-> <<"N","K","E","Y">>, ret |-> 27],
     [code |-> <<"N","T","S","N">>, ret |-> 28],
     [code |-> <<"R","M","O","T">>, ret |-> 29],
     [code |-> <<"S","T","E","P">>, ret |-> 30] >>

\* MIN_OK and MAX_OK of epoch()
MIN_OK == 946684800

MAX_OK == UL(4102, 444800)

\* ------------------------------------------------------------------------
\* Bounds of the model
\* ------------------------------------------------------------------------

\* Tick steps (advances of millis()) in one behaviour.
MaxTicks == 3

\* Datagrams the transport queues between two reads.
MaxQueue == 1

\* The count of requests in flight saturates here.
MaxOutstanding == 2

\* Accessor calls in one behaviour.
MaxReads == 1

\* The count of NTP_CONNECTED results for one response saturates here.
MaxDelivered == 2

\* Datagrams the transport queues between two reads, where the receive loop
\* is studied.
MaxBurst == 2

\* millis() when the object is constructed: 0 (boot), and 250 ms before the
\* 32-bit counter wraps to 0.
StartClocks == {0, -250}

\* The amounts by which millis() advances between two calls.
Deltas == {250, 30000}

\* Arguments of updateInterval(), responseDelay() and retryDelay().
UpdateIntervalArgs == {1000}

ResponseDelayArgs == {1000}

RetryDelayArgs == {250}

\* millis() when the object is constructed, where epoch() is studied: so that
\* the first response can be accepted at 0xFFFFFFF0, 16 ms before the
\* counter wraps, or at 2000.
EpochStartClocks == {-1016, 1000}

\* The amounts by which millis() advances where epoch() is studied: 0x20 ms,
\* a second, 2^31 - 1 ms and 2^31 ms.
EpochDeltas == {32, 1000, MaxInt, MinInt}

\* Transmit Timestamp seconds of the responses where epoch() is studied:
\* 2024-01-01; 2000-01-01 and the second before; the last second of NTP era
\* 0 (2036-02-07); and values below 2208988800: 1, and the three that lie
\* 2^32 - 2208988800 below 2100-01-01 and the seconds next to it.
EpochSecs ==
  {UL(3913, 56000), UL(3155, 673600), UL(3155, 673599), -1,
   1, 2016466303, 2016466304, 2016466305}

\* time_t of the build: the header's own fallback "typedef unsigned long
\* time_t" (32 bits, unsigned) or a 64-bit signed time_t.  MAX_OK =
\* 4102444800UL fits both.
Builds == {"u32", "i64"}

\* ------------------------------------------------------------------------
\* Datagrams
\* ------------------------------------------------------------------------

\* The fields processNTPResponse() and checkValid() read in ntpQuery[0..47]:
\* byte 0, byte 1, bytes 12-15, and the big-endian words at 24, 28, 40, 44.
\* ntpQuery after memset(ntpQuery, 0, NTP_PACKET_SIZE):
ZeroQuery ==
  [b0 |-> 0, stratum |-> 0, refid |-> <<NUL, NUL, NUL, NUL>>,
   orgSec |-> 0, orgFrac |-> 0, txSec |-> 0, txFrac |-> 0]

\* byte 0 of a packet: LI (bits 7-6), VN (bits 5-3), Mode (bits 2-0)
Byte0(li, vn, mode) == li * 64 + vn * 8 + mode

\* A datagram on the transport: its size in bytes (at least 1) and what its
\* first 48 bytes hold.
Datagram(size, b0, stratum, refid, orgSec, orgFrac, txSec, txFrac) ==
  [size |-> size,
   data |-> [b0 |-> b0, stratum |-> stratum, refid |-> refid,
             orgSec |-> orgSec, orgFrac |-> orgFrac,
             txSec |-> txSec, txFrac |-> txFrac]]

\* Transmit Timestamp seconds a server sends: 2024-01-01 00:00:00 UTC
\* (1704067200 + 2208988800), and 2036-02-07, the last second of NTP era 0.
ServerSecs == {UL(3913, 56000), -1}

\* Transmit Timestamp fractions: 0, and 1/2 second.
ServerFracs == {0, MinInt}

\* A well-formed server reply to the request carrying token <<sec, frac>>.
Reply(sec, frac, txSec, txFrac) ==
  Datagram(48, Byte0(0, 4, 4), 1, <<NUL, NUL, NUL, NUL>>, sec, frac, txSec, txFrac)

\* ------------------------------------------------------------------------
\* State
\* ------------------------------------------------------------------------

VARIABLES
  now,                 \* millis(): the local millisecond clock
  defaultInterval, activeInterval, responseDelayValue, retryDelayValue,
  lastUpdate, requestTimestamp, reqTxSec, reqTxFrac,
  lastResponseMillis, lastSyncMillis, ntpTimeSeconds, ntpMillisAtSync,
  force, ntpSt,
  ntpRequest,          \* the request buffer, as init() leaves it
  rx,                  \* the transport's receive queue
  ret,                 \* the last update()/forceUpdate() call and its result
  outstanding,         \* requests transmitted and not yet processed
  sentAt,              \* millis() when the last request was transmitted
  sentDelay,           \* responseDelayValue when the last request was transmitted
  afterKod,            \* a KoD was returned, no update() has returned
                       \* NTP_CONNECTED and no setter was called since
  lastSync,            \* the last accepted response: when it was accepted, its
                       \* Transmit Timestamp, the active interval before, and
                       \* what epoch() returned right after
  ticks,
  reads,               \* the accessor calls made: which, when, the result on
                       \* each build, and the Sync Record it was read from
  pendingGood,         \* NTP2.h: a valid response is latched, not yet delivered
  utcTime,             \* NTP2.h: what epoch() of NTP2.cpp returns
  ntpTime              \* NTP2.h: Transmit Timestamp seconds last read

timing == <<defaultInterval, activeInterval, responseDelayValue, retryDelayValue>>

\* The Sync Record: synced seconds, synced milliseconds, local clock at sync.
syncRecord == <<ntpTimeSeconds, ntpMillisAtSync, lastSyncMillis>>

\* Every field of the NTP2 object.
object ==
  <<timing, lastUpdate, requestTimestamp, reqTxSec, reqTxFrac,
    lastResponseMillis, syncRecord, force, ntpSt, ntpRequest>>

ghost == <<ret, outstanding, sentAt, sentDelay, afterKod, lastSync, ticks, reads>>

\* The members that only the revision of NTP2.h and NTP2.cpp has; the
\* later revision never touches them.
latch == <<pendingGood, utcTime, ntpTime>>

vars == <<now, object, latch, rx, ghost>>

\* uint64_t ntpMillisAtSync = sec * 1000 + ms is held as the pair: the sum
\* is below 2^64 for every 32-bit sec and ms <= 999.
Millis64(sec, ms) == [sec |-> sec, ms |-> ms]

NoRet == [op |-> "none", status |-> NTP_IDLE, did |-> "none"]

NoSync == [synced |-> FALSE]

\* The bytes of a uint32_t x, the lowest first: not what the code writes;
\* C29 tells the two apart.
LittleEndian(x) ==
  << x % 256, (x \div 256) % 256, (x \div 65536) % 256, (x \div 16777216) % 256 >>

\* The four bytes (x >> 24) & 0xFF, (x >> 16) & 0xFF, (x >> 8) & 0xFF and
\* x & 0xFF of a uint32_t x
BigEndian(x) ==
  << (x \div 16777216) % 256, (x \div 65536) % 256, (x \div 256) % 256, x % 256 >>

\* The request buffer of NTP_PACKET_SIZE bytes: byte 0, bytes 40-47, and
\* whether every other byte is zero.
Request(b0, txSec, txFrac) ==
  [size |-> NTP_PACKET_SIZE, b0 |-> b0,
   tx |-> BigEndian(txSec) \o BigEndian(txFrac), restZero |-> TRUE]

\* The object after construction (member initialisers of NTP2.h).
Init ==
  /\ now \in StartClocks
  /\ defaultInterval = NTP_POLL_INTERVAL
  /\ activeInterval = NTP_POLL_INTERVAL
  /\ responseDelayValue = NTP_RESPONSE_DELAY
  /\ retryDelayValue = NTP_RETRY_DELAY
  /\ lastUpdate = 0
  /\ requestTimestamp = 0
  /\ reqTxSec = 0
  /\ reqTxFrac = 0
  /\ lastResponseMillis = 0
  /\ lastSyncMillis = 0
  /\ ntpTimeSeconds = 0
  /\ ntpMillisAtSync = Millis64(0, 0)
  /\ force = FALSE
  /\ ntpSt = NTP_BAD_PACKET
  /\ ntpRequest = Request(0, 0, 0)
  /\ rx = <<>>
  /\ ret = NoRet
  /\ outstanding = 0
  /\ sentAt = 0
  /\ sentDelay = 0
  /\ afterKod = FALSE
  /\ lastSync = NoSync
  /\ ticks = 0
  /\ reads = <<>>
  /\ pendingGood = FALSE
  /\ utcTime = 0
  /\ ntpTime = 0

\* ------------------------------------------------------------------------
\* Receiving and validating a response
\* ------------------------------------------------------------------------

\* A receive loop that stops overwriting ntpQuery once it has a datagram, and
\* so keeps the first complete one: not what the code does; C27 tells the
\* two apart.
RECURSIVE DrainKeepsFirst(_, _, _)
DrainKeepsFirst(q, buf, got) ==
  IF q = <<>>
    THEN [buf |-> buf, gotPacket |-> got]
    ELSE IF Head(q).size >= NTP_PACKET_SIZE /\ ~got
           THEN DrainKeepsFirst(Tail(q), Head(q).data, TRUE)
           ELSE DrainKeepsFirst(Tail(q), buf, got)

\* The receive loop of processNTPResponse(): every queued datagram is parsed
\* in turn; one of NTP_PACKET_SIZE bytes or more overwrites ntpQuery with
\* its first 48 bytes and sets gotPacket, a shorter one is discarded.
RECURSIVE Drain(_, _, _)
Drain(q, buf, got) ==
  IF q = <<>>
    THEN [buf |-> buf, gotPacket |-> got]
    ELSE IF Head(q).size >= NTP_PACKET_SIZE
           THEN Drain(Tail(q), Head(q).data, TRUE)
           ELSE Drain(Tail(q), buf, got)

\* A char buffer read as a C string: the characters before the first '\0'.
RECURSIVE CStr(_)
CStr(s) ==
  IF s = <<>> \/ Head(s) = NUL THEN <<>> ELSE <<Head(s)>> \o CStr(Tail(s))

\* strcmp(a, b) == 0
StrEq(a, b) == CStr(a) = CStr(b)

\* A lookup that compares the first three characters only (strncmp(.., 3)):
\* not what the code does; C5 tells the two apart.
KodStatusFirstThree(kod) ==
  LET hits == {i \in 1..Len(kodLookup) :
                 SubSeq(kod, 1, 3) = SubSeq(kodLookup[i].code, 1, 3)}
  IN  IF hits = {}
        THEN NTP_UNKNOWN_KOD
        ELSE kodLookup[CHOOSE i \in hits : \A j \in hits : i <= j].ret

\* for (auto& k : kodLookup) if (strcmp(kod, k.code) == 0) ... k.ret;
\* NTP_UNKNOWN_KOD when the loop ends without a match.
KodStatus(kod) ==
  LET hits == {i \in 1..Len(kodLookup) : StrEq(kod, kodLookup[i].code \o <<NUL>>)}
  IN  IF hits = {}
        THEN NTP_UNKNOWN_KOD
        ELSE kodLookup[CHOOSE i \in hits : \A j \in hits : i <= j].ret

\* stratum == 0 && (mode == 4 || mode == 5)
IsKod(q) == q.stratum = 0 /\ (q.b0 % 8 = 4 \/ q.b0 % 8 = 5)

\* A correlation check on the seconds alone: not what the code does; C3
\* tells the two apart.
MismatchSecondsOnly(q, sec, frac) == q.orgSec # sec

\* orgSec != reqTxSec || orgFrac != reqTxFrac
Mismatch(q, sec, frac) == q.orgSec # sec \/ q.orgFrac # frac

\* A header check without the upper bound on the stratum: not what the code
\* does; C4 tells the two apart.
checkValidAnyStratum(q, tempTimeSeconds) ==
  LET li      == (q.b0 \div 64) % 4
      version == (q.b0 \div 8) % 8
      mode    == q.b0 % 8
  IN  /\ tempTimeSeconds # 0
      /\ li # 3
      /\ ~(version < 3 \/ version > 4)
      /\ ~(mode # 4 /\ mode # 5)
      /\ q.stratum >= 1

\* bool NTP2::checkValid(uint32_t tempTimeSeconds), reading ntpQuery = q
checkValid(q, tempTimeSeconds) ==
  LET li      == (q.b0 \div 64) % 4
      version == (q.b0 \div 8) % 8
      mode    == q.b0 % 8
  IN  /\ tempTimeSeconds # 0
      /\ li # 3
      /\ ~(version < 3 \/ version > 4)
      /\ ~(mode # 4 /\ mode # 5)
      /\ q.stratum >= 1 /\ q.stratum <= 15

\* The product txFrac * 1000 taken in 32 bits, without the cast to
\* uint64_t, and so below 2^32: not what the code does; C28 tells the two
\* apart.
FracMillisIn32Bits(txFrac) == 0

\* (uint32_t)((uint64_t)txFrac * 1000 / 0x100000000ULL), on the 16-bit halves
FracMillis(txFrac) ==
  (Hi16(txFrac) * 1000 + (Lo16(txFrac) * 1000) \div 65536) \div 65536

\* An accepting tail that leaves the active interval alone: not what the
\* code does; C9 tells the two apart.
RestoreIntervalNever(active, default) == active

\* if (activeInterval != defaultInterval) activeInterval = defaultInterval;
RestoreInterval(active, default) == IF active # default THEN default ELSE active

\* What a run of processNTPResponse() leaves: the fields it writes, its
\* return value, and the path it took.
Outcome(path, status, active, sec, msAt, syncMs, respMs) ==
  [path |-> path, status |-> status, activeInterval |-> active, ntpSt |-> status,
   ntpTimeSeconds |-> sec, ntpMillisAtSync |-> msAt,
   lastSyncMillis |-> syncMs, lastResponseMillis |-> respMs]

\* A badRead() that also clears ntpTimeSeconds, as an earlier revision did:
\* not what this revision does; C8 tells the two apart.
badReadClearsTime(path) ==
  Outcome(path, NTP_BAD_PACKET, retryDelayValue,
          0, ntpMillisAtSync, lastSyncMillis, lastResponseMillis)

\* A Kiss-o'-Death branch that leaves the active interval alone: not what
\* the code does; C6 tells the two apart.
kodReadKeepsInterval(q) ==
  Outcome("kod", KodStatus(q.refid \o <<NUL>>), activeInterval,
          ntpTimeSeconds, ntpMillisAtSync, lastSyncMillis, lastResponseMillis)

\* NTPStatus NTP2::badRead()
badRead(path) ==
  Outcome(path, NTP_BAD_PACKET, retryDelayValue,
          ntpTimeSeconds, ntpMillisAtSync, lastSyncMillis, lastResponseMillis)

\* The Kiss-o'-Death branch of processNTPResponse()
kodRead(q) ==
  Outcome("kod", KodStatus(q.refid \o <<NUL>>), retryDelayValue,
          ntpTimeSeconds, ntpMillisAtSync, lastSyncMillis, lastResponseMillis)

\* The accepting tail of processNTPResponse()
goodRead(q) ==
  Outcome("accept", NTP_CONNECTED, RestoreInterval(activeInterval, defaultInterval),
          q.txSec, Millis64(q.txSec, FracMillis(q.txFrac)), now, now)

\* NTPStatus NTP2::processNTPResponse(), from the queue rx
processNTPResponse ==
  LET d == Drain(rx, ZeroQuery, FALSE)
      q == d.buf
  IN  IF ~d.gotPacket THEN badRead("nopacket")
      ELSE IF IsKod(q) THEN kodRead(q)
      ELSE IF Mismatch(q, reqTxSec, reqTxFrac) THEN badRead("mismatch")
      ELSE IF q.txSec = 0 THEN badRead("zerotx")
      ELSE IF ~checkValid(q, q.txSec) THEN badRead("invalid")
      ELSE goodRead(q)

\* ------------------------------------------------------------------------
\* epoch()
\* ------------------------------------------------------------------------

\* An elapsed time that takes a clock reading below lastSyncMillis for "no
\* time elapsed": not what the code does; C11 tells the two apart.
ElapsedMsNoWrap(t, syncMs) ==
  IF ULT(t, syncMs) THEN 0 ELSE WrapSub(t, syncMs)

\* An elapsed time that is always 0, so that epoch() stands still: not what
\* the code does; C12 tells the two apart.
ElapsedMsFrozen(t, syncMs) == 0

\* int32_t elapsedMs = (int32_t)(now - lastSyncMillis); if (< 0) elapsedMs = 0;
ElapsedMs(t, syncMs) ==
  LET e == WrapSub(t, syncMs) IN IF e < 0 THEN 0 ELSE e

\* (ntpMillisAtSync + (uint32_t)elapsedMs) / 1000ULL, less the seconds of
\* ntpMillisAtSync: the whole seconds that ms and the elapsed time add up to.
CarrySeconds(ms, elapsedMs) ==
  elapsedMs \div 1000 + ((elapsedMs % 1000) + ms) \div 1000

\* time_t NTP2::epoch() at clock reading t of a build b, from a Sync Record
\* <<sec, msAt, syncMs>>.  The 64-bit value currentNtpMillis / 1000 -
\* SEVENTYYEARS is msAt.sec + carry - 2208988800, below 2^31 whenever it is
\* not negative; negative, it wraps modulo 2^64.  A 64-bit signed time_t
\* keeps it (negative: below MIN_OK), a 32-bit unsigned time_t keeps its low
\* 32 bits.
epochOf(b, t, sec, msAt, syncMs) ==
  IF sec = 0 \/ syncMs = 0 THEN 0
  ELSE
    LET carry == CarrySeconds(msAt.ms, ElapsedMs(t, syncMs))
        low32 == WrapSub(WrapAdd(msAt.sec, carry), SEVENTYYEARS)
        \* msAt.sec + carry < 2208988800, as unsigned 64-bit values
        negative == msAt.sec >= 0 \/ (msAt.sec - SEVENTYYEARS) + carry < 0
    IN  IF b = "i64"
          THEN IF negative \/ low32 < MIN_OK THEN 0 ELSE low32
          ELSE IF ULT(low32, MIN_OK) \/ ULT(MAX_OK, low32) THEN 0 ELSE low32

epoch(b) == epochOf(b, now, ntpTimeSeconds, ntpMillisAtSync, lastSyncMillis)

\* uint32_t NTP2::timestamp()
timestamp == lastResponseMillis

\* bool NTP2::ntpStat()
ntpStat == ntpSt = NTP_CONNECTED

\* ------------------------------------------------------------------------
\* Operations
\* ------------------------------------------------------------------------

\* Kiss-o'-Death statuses: the ret values of kodLookup, and NTP_UNKNOWN_KOD.
IsKodStatus(st) == st >= NTP_KOD_RATE

\* void NTP2::begin(), begin(const char*), begin(IPAddress): the three set
\* force and lastUpdate alike; which server is addressed is not modelled.
begin ==
  /\ force' = TRUE
  /\ lastUpdate' = WrapSub(now, activeInterval)
  /\ UNCHANGED <<latch, now, timing, requestTimestamp, reqTxSec, reqTxFrac,
                 lastResponseMillis, syncRecord, ntpSt, ntpRequest, rx,
                 ret, outstanding, sentAt, sentDelay, afterKod, lastSync, ticks, reads>>

\* void NTP2::updateInterval(unsigned long uInterval)
updateInterval(uInterval) ==
  /\ activeInterval' = uInterval
  /\ defaultInterval' = uInterval
  /\ afterKod' = FALSE
  /\ UNCHANGED <<latch, now, responseDelayValue, retryDelayValue, lastUpdate,
                 requestTimestamp, reqTxSec, reqTxFrac, lastResponseMillis,
                 syncRecord, force, ntpSt, ntpRequest, rx,
                 ret, outstanding, sentAt, sentDelay, lastSync, ticks, reads>>

\* void NTP2::responseDelay(uint32_t newDelay)
responseDelay(newDelay) ==
  /\ responseDelayValue' = newDelay
  /\ afterKod' = FALSE
  /\ UNCHANGED <<latch, now, defaultInterval, activeInterval, retryDelayValue, lastUpdate,
                 requestTimestamp, reqTxSec, reqTxFrac, lastResponseMillis,
                 syncRecord, force, ntpSt, ntpRequest, rx,
                 ret, outstanding, sentAt, sentDelay, lastSync, ticks, reads>>

\* void NTP2::retryDelay(uint32_t newDelay)
retryDelay(newDelay) ==
  /\ retryDelayValue' = newDelay
  /\ afterKod' = FALSE
  /\ UNCHANGED <<latch, now, defaultInterval, activeInterval, responseDelayValue, lastUpdate,
                 requestTimestamp, reqTxSec, reqTxFrac, lastResponseMillis,
                 syncRecord, force, ntpSt, ntpRequest, rx,
                 ret, outstanding, sentAt, sentDelay, lastSync, ticks, reads>>

\* void NTP2::init(): the request buffer and the request token
init ==
  /\ reqTxSec' = now
  /\ reqTxFrac' = 0
  /\ ntpRequest' = Request(Byte0(0, 4, 3), reqTxSec', reqTxFrac')

\* requestTimestamp = millis(), once the datagram has left
Marker(t) == t

\* A sendNTPRequest() that leaves the force flag set after a successful
\* transmission: not what the code does; C16 tells the two apart.
sendNTPRequestKeepsForce(op, f, sent) ==
  /\ lastUpdate' = now
  /\ init
  /\ force' = f
  /\ IF sent
       THEN /\ requestTimestamp' = Marker(now)
            /\ ntpSt' = NTP_IDLE
            /\ ret' = [op |-> op, status |-> NTP_IDLE, did |-> "send"]
            /\ outstanding' = IF outstanding < MaxOutstanding
                                THEN outstanding + 1 ELSE outstanding
            /\ sentAt' = now
            /\ sentDelay' = responseDelayValue
       ELSE /\ ntpSt' = NTP_BAD_PACKET
            /\ ret' = [op |-> op, status |-> NTP_BAD_PACKET, did |-> "sendfail"]
            /\ UNCHANGED <<requestTimestamp, outstanding, sentAt, sentDelay>>
  /\ UNCHANGED <<latch, now, timing, lastResponseMillis, syncRecord, rx,
                 afterKod, lastSync, ticks, reads>>

\* NTPStatus NTP2::sendNTPRequest(), called for op with the force flag f.
\* sent: beginPacket(), write() and endPacket() all succeeded and the
\* datagram has left.
sendNTPRequest(op, f, sent) ==
  /\ lastUpdate' = now
  /\ init
  /\ IF sent
       THEN /\ requestTimestamp' = Marker(now)
            /\ force' = FALSE
            /\ ntpSt' = NTP_IDLE
            /\ ret' = [op |-> op, status |-> NTP_IDLE, did |-> "send"]
            /\ outstanding' = IF outstanding < MaxOutstanding
                                THEN outstanding + 1 ELSE outstanding
            /\ sentAt' = now
            /\ sentDelay' = responseDelayValue
       ELSE /\ ntpSt' = NTP_BAD_PACKET
            /\ force' = f
            /\ ret' = [op |-> op, status |-> NTP_BAD_PACKET, did |-> "sendfail"]
            /\ UNCHANGED <<requestTimestamp, outstanding, sentAt, sentDelay>>
  /\ UNCHANGED <<latch, now, timing, lastResponseMillis, syncRecord, rx,
                 afterKod, lastSync, ticks, reads>>

\* A processNTPResponse() branch that leaves requestTimestamp as it is: not
\* what the code does; C21 tells the two apart.
processKeepsMarker(op) ==
  LET out == processNTPResponse IN
  /\ rx' = <<>>
  /\ activeInterval' = out.activeInterval
  /\ ntpSt' = out.ntpSt
  /\ ntpTimeSeconds' = out.ntpTimeSeconds
  /\ ntpMillisAtSync' = out.ntpMillisAtSync
  /\ lastSyncMillis' = out.lastSyncMillis
  /\ lastResponseMillis' = out.lastResponseMillis
  /\ ret' = [op |-> op, status |-> out.status, did |-> out.path]
  /\ outstanding' = 0
  /\ UNCHANGED <<latch, now, defaultInterval, responseDelayValue, retryDelayValue,
                 lastUpdate, requestTimestamp, reqTxSec, reqTxFrac, force,
                 ntpRequest, sentAt, sentDelay, afterKod, lastSync, ticks, reads>>

\* The branch of update() that runs processNTPResponse()
process(op) ==
  LET out == processNTPResponse IN
  /\ requestTimestamp' = 0
  /\ rx' = <<>>
  /\ activeInterval' = out.activeInterval
  /\ ntpSt' = out.ntpSt
  /\ ntpTimeSeconds' = out.ntpTimeSeconds
  /\ ntpMillisAtSync' = out.ntpMillisAtSync
  /\ lastSyncMillis' = out.lastSyncMillis
  /\ lastResponseMillis' = out.lastResponseMillis
  /\ ret' = [op |-> op, status |-> out.status, did |-> out.path]
  /\ outstanding' = 0
  /\ afterKod' = IF IsKodStatus(out.status) THEN TRUE
                 ELSE IF out.status = NTP_CONNECTED THEN FALSE ELSE afterKod
  /\ lastSync' = IF out.status = NTP_CONNECTED
                   THEN LET q == Drain(rx, ZeroQuery, FALSE).buf
                        IN  [synced |-> TRUE, at |-> now,
                             txSec |-> q.txSec, txFrac |-> q.txFrac,
                             from |-> activeInterval,
                             epoch |-> [b \in Builds |->
                                          epochOf(b, now, out.ntpTimeSeconds,
                                                  out.ntpMillisAtSync,
                                                  out.lastSyncMillis)]]
                   ELSE lastSync
  /\ UNCHANGED <<latch, now, defaultInterval, responseDelayValue, retryDelayValue,
                 lastUpdate, reqTxSec, reqTxFrac, force, ntpRequest,
                 sentAt, sentDelay, ticks, reads>>

\* A call that returns NTP_IDLE and does nothing else
idle(op, did) ==
  /\ ret' = [op |-> op, status |-> NTP_IDLE, did |-> did]
  /\ UNCHANGED <<latch, now, object, rx, outstanding, sentAt, sentDelay, afterKod, lastSync, ticks, reads>>

\* (int32_t)(millis() - since) >= (int32_t)interval
Elapsed(since, interval) == WrapSub(now, since) >= interval

\* NTPStatus NTP2::update(), called for op with the force flag f
updateBody(op, f) ==
  IF requestTimestamp # 0
    THEN IF Elapsed(requestTimestamp, responseDelayValue)
           THEN process(op)
           ELSE idle(op, "wait")
    ELSE IF f \/ Elapsed(lastUpdate, activeInterval)
           THEN \E sent \in BOOLEAN : sendNTPRequest(op, f, sent)
           ELSE idle(op, "idle")

update == updateBody("update", force)

\* if (requestTimestamp != 0) return NTP_BAD_PACKET;
Pending == requestTimestamp # 0

\* NTPStatus NTP2::forceUpdate(): force = true; return update();
forceUpdate ==
  IF Pending
    THEN /\ ret' = [op |-> "forceUpdate", status |-> NTP_BAD_PACKET, did |-> "reject"]
         /\ UNCHANGED <<latch, now, object, rx, outstanding, sentAt, sentDelay, afterKod, lastSync, ticks, reads>>
    ELSE updateBody("forceUpdate", TRUE)

\* One accessor call: which, the clock reading, the result on each build,
\* and the Sync Record it was made on.
Read(op, value) ==
  [op |-> op, at |-> now, value |-> [b \in Builds |-> value[b]],
   record |-> syncRecord]

\* An accessor that stores NTP_IDLE as the last status: not what the code
\* does; C19 tells the two apart.
AccessorSetsStatus(op, value) ==
  /\ Len(reads) < MaxReads
  /\ reads' = Append(reads, Read(op, value))
  /\ ntpSt' = NTP_IDLE
  /\ UNCHANGED <<latch, now, timing, lastUpdate, requestTimestamp, reqTxSec, reqTxFrac,
                 lastResponseMillis, syncRecord, force, ntpRequest, rx, ret,
                 outstanding, sentAt, sentDelay, afterKod, lastSync, ticks>>

\* A call of an accessor: nothing but the caller's note of the result changes.
Accessor(op, value) ==
  /\ Len(reads) < MaxReads
  /\ reads' = Append(reads, Read(op, value))
  /\ UNCHANGED <<latch, now, object, rx, ret, outstanding, sentAt, sentDelay,
                 afterKod, lastSync, ticks>>

\* ------------------------------------------------------------------------
\* Environment
\* ------------------------------------------------------------------------

\* millis() advances by d
Tick(d) ==
  /\ ticks < MaxTicks
  /\ ticks' = ticks + 1
  /\ now' = WrapAdd(now, d)
  /\ UNCHANGED <<latch, object, rx, ret, outstanding, sentAt, sentDelay, afterKod,
                 lastSync, reads>>

\* millis() advances by d, any number of times
Elapse(d) ==
  /\ now' = WrapAdd(now, d)
  /\ UNCHANGED <<latch, object, rx, ghost>>

\* The transport queues datagram p
Deliver(p) ==
  /\ Len(rx) < MaxQueue
  /\ rx' = Append(rx, p)
  /\ UNCHANGED <<latch, now, object, ghost>>

\* Datagrams that arrive in the life cycle specification: the reply to the
\* request in flight, a reply to some other request, a RATE Kiss-o'-Death,
\* a reply of an unsynchronised server (stratum 16), a truncated datagram.
Arrivals ==
  {Reply(reqTxSec, reqTxFrac, s, f) : s \in ServerSecs, f \in ServerFracs}
  \cup {Reply(WrapAdd(reqTxSec, 1), reqTxFrac, UL(3913, 56000), 0),
        Datagram(48, Byte0(0, 4, 4), 0, <<"R","A","T","E">>, 0, 0, 0, 0),
        Datagram(48, Byte0(0, 4, 4), 16, <<NUL,NUL,NUL,NUL>>, reqTxSec, reqTxFrac,
                 UL(3913, 56000), 0),
        Datagram(40, Byte0(0, 4, 4), 1, <<NUL,NUL,NUL,NUL>>, reqTxSec, reqTxFrac,
                 UL(3913, 56000), 0)}

\* Datagrams of the codec specification: every combination of the header
\* fields below with a RATE reference id, and every reference id of RefIds
\* under stratum 0.
Sizes == {47, 48}

LeapIndicators == {0, 3}

Versions == {2, 3, 4, 5}

Modes == {3, 4, 5}

Strata == {0, 1, 15, 16}

\* The 15 codes of kodLookup, and reference ids that are none of them.
RefIds ==
  {kodLookup[i].code : i \in 1..Len(kodLookup)}
  \cup {<<"Z","Z","Z","Z">>, <<"R","A","T",NUL>>, <<"R","A","T","F">>,
        <<"r","a","t","e">>, <<NUL,NUL,NUL,NUL>>, <<"U","N","K","N">>}

\* Originate Timestamps: the token of the last request built, and two that
\* differ from it in the seconds or in the fraction.
Originates ==
  {<<reqTxSec, reqTxFrac>>, <<WrapAdd(reqTxSec, 1), reqTxFrac>>,
   <<reqTxSec, WrapAdd(reqTxFrac, 1)>>}

\* Sent by a server of 2024-01-01 00:00:00 UTC, or carrying no time.
TransmitSecs == {0, UL(3913, 56000)}

\* The replies where epoch() is studied: each answers the request in flight,
\* with a fraction of 0 or, from the server of 2024, of half a second.
EpochArrivals ==
  {Reply(reqTxSec, reqTxFrac, sec, 0) : sec \in EpochSecs}
  \cup {Reply(reqTxSec, reqTxFrac, UL(3913, 56000), MinInt)}

Begin == begin

Update == update

ForceUpdate == forceUpdate

UpdateInterval == \E v \in UpdateIntervalArgs : updateInterval(v)

ResponseDelay == \E v \in ResponseDelayArgs : responseDelay(v)

RetryDelay == \E v \in RetryDelayArgs : retryDelay(v)

Advance == \E d \in Deltas : Tick(d)

Receive == \E p \in Arrivals : Deliver(p)

ReceiveAny ==
  /\ rx = <<>>
  /\ Pending
  /\ Elapsed(requestTimestamp, responseDelayValue)
  /\ \/ \E n \in Sizes, li \in LeapIndicators, vn \in Versions, mode \in Modes,
            st \in Strata, org \in Originates, tx \in TransmitSecs :
          Deliver(Datagram(n, Byte0(li, vn, mode), st, <<"R","A","T","E">>,
                           org[1], org[2], tx, 0))
     \/ \E mode \in Modes, id \in RefIds, org \in Originates, tx \in TransmitSecs :
          Deliver(Datagram(48, Byte0(0, 4, mode), 0, id, org[1], org[2], tx, 0))

\* A call of epoch()
Epoch == Accessor("epoch", [b \in Builds |-> epoch(b)])

\* A call of timestamp()
Timestamp == Accessor("timestamp", [b \in Builds |-> timestamp])

\* A call of ntpStat(): 1 for true, 0 for false
NtpStat == Accessor("ntpStat", [b \in Builds |-> IF ntpStat THEN 1 ELSE 0])

AdvanceEpoch == \E d \in EpochDeltas : Tick(d)

ReceiveEpoch ==
  /\ rx = <<>>
  /\ Pending
  /\ Elapsed(requestTimestamp, responseDelayValue)
  /\ \E p \in EpochArrivals : Deliver(p)

AdvanceTimeout == Tick(NTP_RESPONSE_DELAY)

\* The life cycle: the default timing configuration, polled and forced.
Next ==
  \/ Begin
  \/ Update
  \/ ForceUpdate
  \/ Advance
  \/ Receive

Spec == Init /\ [][Next]_vars

\* The codec: one request after the other, each answered by one datagram,
\* which arrives when the response timeout has elapsed, just before the
\* update() call that reads it.
NextCodec ==
  \/ rx = <<>> /\ Begin
  \/ Update
  \/ rx = <<>> /\ AdvanceTimeout
  \/ ReceiveAny

SpecCodec == Init /\ [][NextCodec]_vars

\* The timing configuration changed at any time.
NextConfig ==
  \/ Begin
  \/ Update
  \/ ForceUpdate
  \/ UpdateInterval
  \/ ResponseDelay
  \/ RetryDelay
  \/ AdvanceTimeout
  \/ Receive

SpecConfig == Init /\ [][NextConfig]_vars

\* The object constructed at a clock reading of EpochStartClocks.
InitEpoch ==
  /\ now \in EpochStartClocks
  /\ defaultInterval = NTP_POLL_INTERVAL
  /\ activeInterval = NTP_POLL_INTERVAL
  /\ responseDelayValue = NTP_RESPONSE_DELAY
  /\ retryDelayValue = NTP_RETRY_DELAY
  /\ lastUpdate = 0
  /\ requestTimestamp = 0
  /\ reqTxSec = 0
  /\ reqTxFrac = 0
  /\ lastResponseMillis = 0
  /\ lastSyncMillis = 0
  /\ ntpTimeSeconds = 0
  /\ ntpMillisAtSync = Millis64(0, 0)
  /\ force = FALSE
  /\ ntpSt = NTP_BAD_PACKET
  /\ ntpRequest = Request(0, 0, 0)
  /\ rx = <<>>
  /\ ret = NoRet
  /\ outstanding = 0
  /\ sentAt = 0
  /\ sentDelay = 0
  /\ afterKod = FALSE
  /\ lastSync = NoSync
  /\ ticks = 0
  /\ reads = <<>>
  /\ pendingGood = FALSE
  /\ utcTime = 0
  /\ ntpTime = 0

\* The accessors: begin() called once, before the first update(); responses
\* of every era accepted; the clock advanced by up to 2^31 ms at a time;
\* epoch(), timestamp() and ntpStat() called in between.
NextEpoch ==
  \/ rx = <<>> /\ ret.op = "none" /\ Begin
  \/ Update
  \/ rx = <<>> /\ AdvanceEpoch
  \/ ReceiveEpoch
  \/ Epoch
  \/ Timestamp
  \/ NtpStat

SpecEpoch == InitEpoch /\ [][NextEpoch]_vars

\* The amount by which millis() advances where the client is polled for
\* ever: 2^30 ms, a quarter of the counter's range.
LiveDeltas == {1073741824}

AdvanceLive == \E d \in LiveDeltas : Elapse(d)

\* The datagrams that arrive where the client is polled for ever: the reply
\* of a server of 2024 to the request in flight, a reply to some other
\* request, a RATE Kiss-o'-Death; each when the response timeout has
\* elapsed.
LiveArrivals ==
  {Reply(reqTxSec, reqTxFrac, UL(3913, 56000), 0),
   Reply(WrapAdd(reqTxSec, 1), reqTxFrac, UL(3913, 56000), 0),
   Datagram(48, Byte0(0, 4, 4), 0, <<"R","A","T","E">>, 0, 0, 0, 0)}

ReceiveLive ==
  /\ rx = <<>>
  /\ Pending
  /\ Elapsed(requestTimestamp, responseDelayValue)
  /\ \E p \in LiveArrivals : Deliver(p)

\* update() has something to do: the response timeout of the request in
\* flight has elapsed, or no request is in flight and one is to be sent.
Due ==
  IF requestTimestamp # 0
    THEN Elapsed(requestTimestamp, responseDelayValue)
    ELSE force \/ Elapsed(lastUpdate, activeInterval)

\* The client polled for ever: the clock never stops, and loop() calls
\* update() again and again, so that if the moments at which a call has
\* something to do keep coming, calls keep being made at such moments
\* (strong fairness of the due call, which is enabled exactly when Due).
NextLive ==
  \/ rx = <<>> /\ ret.op = "none" /\ Begin
  \/ Update
  \/ ForceUpdate
  \/ AdvanceLive
  \/ ReceiveLive

Polled ==
  /\ WF_vars(AdvanceLive)
  /\ []<>Due => []<><<Due /\ Update>>_vars

SpecLive == Init /\ [][NextLive]_vars /\ Polled

\* The transport queues datagram p behind up to MaxBurst - 1 others
DeliverBurst(p) ==
  /\ Len(rx) < MaxBurst
  /\ rx' = Append(rx, p)
  /\ UNCHANGED <<latch, now, object, ghost>>

\* Sizes of the datagrams where the receive loop is studied: one byte short,
\* NTP_PACKET_SIZE, and NTP_PACKET_SIZE with a 20-byte extension field.
BurstSizes == {47, 48, 68}

\* The first datagram to arrive: from a server of 2024, a reply to the
\* request in flight or to some other request, or a RATE Kiss-o'-Death, of
\* each size.
BurstFirst ==
  {Datagram(n, Byte0(0, 4, 4), 1, <<NUL,NUL,NUL,NUL>>, org, reqTxFrac,
            UL(3913, 56000), 0) :
     n \in BurstSizes, org \in {reqTxSec, WrapAdd(reqTxSec, 1)}}
  \cup {Datagram(n, Byte0(0, 4, 4), 0, <<"R","A","T","E">>, 0, 0, 0, 0) :
          n \in BurstSizes}

\* A datagram that arrives behind another: any of the above, or the reply
\* of a server of 2036, half a second into the second, which appends an
\* extension field.
BurstBehind ==
  BurstFirst
  \cup {Datagram(68, Byte0(0, 4, 4), 1, <<NUL,NUL,NUL,NUL>>, reqTxSec, reqTxFrac,
                 -1, MinInt)}

\* Datagrams arrive while the request is in flight and its timeout has
\* elapsed, before the update() call that reads them.
ReceiveBurst ==
  /\ Pending
  /\ Elapsed(requestTimestamp, responseDelayValue)
  /\ \E p \in (IF rx = <<>> THEN BurstFirst ELSE BurstBehind) : DeliverBurst(p)

\* The receive loop: several datagrams queued for one read.
NextBurst ==
  \/ rx = <<>> /\ ret.op = "none" /\ Begin
  \/ Update
  \/ rx = <<>> /\ AdvanceTimeout
  \/ ReceiveBurst

SpecBurst == Init /\ [][NextBurst]_vars

\* Transmit Timestamp seconds over the whole range of uint32_t: 1; 4294968,
\* the least whose product with 1000 passes 2^32; 2024-01-01; 2^31; and
\* 2^32 - 1.
WideSecs == {1, 4294968, UL(3913, 56000), MinInt, -1}

\* Transmit Timestamp fractions over the whole range of uint32_t: 0 and 1;
\* 4294967 and 4294968, the last of millisecond 0 and the first of
\* millisecond 1; 2^31 - 1 and 2^31, either side of half a second; and
\* 2^32 - 1.
WideFracs == {0, 1, 4294967, 4294968, MaxInt, MinInt, -1}

\* A valid reply to the request in flight arrives when the response timeout
\* has elapsed.
ReceiveFrac ==
  /\ rx = <<>>
  /\ Pending
  /\ Elapsed(requestTimestamp, responseDelayValue)
  /\ \E sec \in WideSecs, frac \in WideFracs :
       Deliver(Reply(reqTxSec, reqTxFrac, sec, frac))

\* The Sync Record: replies accepted with every kind of Transmit Timestamp.
NextFrac ==
  \/ rx = <<>> /\ Begin
  \/ Update
  \/ rx = <<>> /\ AdvanceTimeout
  \/ ReceiveFrac

SpecFrac == Init /\ [][NextFrac]_vars

\* Arguments of the setters over the whole range of uint32_t: 0, 2^31 and
\* 2^32 - 1; the defaults are 250, 30000 and 3600000.
WideArgs == {0, MinInt, -1}

\* The amounts by which millis() advances there: 1 ms short of the default
\* response timeout, 1 ms, and 2^30 ms.
WideDeltas == {249, 1, 1073741824}

\* The timing configuration is set before the first update() or
\* forceUpdate(), as in setup(), and left alone afterwards.
UpdateIntervalWide == ret.op = "none" /\ \E v \in WideArgs : updateInterval(v)

ResponseDelayWide == ret.op = "none" /\ \E v \in WideArgs : responseDelay(v)

RetryDelayWide == ret.op = "none" /\ \E v \in WideArgs : retryDelay(v)

AdvanceWide == \E d \in WideDeltas : Tick(d)

\* Timing configurations over the whole range of uint32_t, polled after
\* begin() or without it.
NextWide ==
  \/ rx = <<>> /\ ret.op = "none" /\ Begin
  \/ Update
  \/ UpdateIntervalWide
  \/ ResponseDelayWide
  \/ RetryDelayWide
  \/ AdvanceWide
  \/ ReceiveLive

SpecWide == Init /\ [][NextWide]_vars

\* ------------------------------------------------------------------------
\* The revision of NTP2.h and NTP2.cpp: the pendingGood latch
\* ------------------------------------------------------------------------

\* NTP2.h: #define NTP_POLL_INTERVAL 1800000
NTP2h_NTP_POLL_INTERVAL == 1800000

\* NTP2.h: KodEntry kodLookup[16], the 15 codes above and {"UNKN", 0x20}
NTP2h_kodLookup ==
  kodLookup \o << [code |-> <<"U","N","K","N">>, ret |-> NTP_UNKNOWN_KOD] >>

\* The members that only the later revision has; NTP2.cpp never touches
\* them.
later == <<reqTxSec, reqTxFrac, syncRecord>>

\* The width of int of the build, in bits: ntpQuery[i] << n is computed in
\* int.
IntBits == {16, 32}

\* A datagram as NTP2.cpp reads it: its size in bytes, byte 1, bytes 12-15,
\* and the big-endian words at 16 (Reference Timestamp seconds), 32 (Receive
\* Timestamp seconds) and 40 (Transmit Timestamp seconds).
NTP2cpp_Datagram(size, stratum, refid, reftsSec, rcvtsSec, txSec) ==
  [size |-> size,
   data |-> [stratum |-> stratum, refid |-> refid, reftsSec |-> reftsSec,
             rcvtsSec |-> rcvtsSec, txSec |-> txSec]]

\* uint8_t size = udp->parsePacket(): the size of the first datagram queued
\* (0 when there is none), cut to 8 bits.
NTP2cpp_size == IF rx = <<>> THEN 0 ELSE Head(rx).size % 256

\* The index of the first entry of kodLookup that strcmp() finds equal to
\* kodMessage, 0 when there is none.
NTP2cpp_kodIndex(kod) ==
  LET hits == {i \in 1..Len(NTP2h_kodLookup) :
                 StrEq(kod, NTP2h_kodLookup[i].code \o <<NUL>>)}
  IN  IF hits = {} THEN 0 ELSE CHOOSE i \in hits : \A j \in hits : i <= j

\* (ntpQuery[40] << 24) | (ntpQuery[41] << 16) | (ntpQuery[42] << 8) |
\* ntpQuery[43], assigned to uint32_t ntpTime.  With a 32-bit int this is the
\* big-endian word.  With a 16-bit int the shifts by 24 and 16 are undefined
\* and yield 0 in practice, and the rest is an int of 16 bits, sign-extended
\* by the assignment.
NTP2cpp_ntpTime(w, txSec) ==
  IF w = 32
    THEN txSec
    ELSE IF Lo16(txSec) >= 32768 THEN Lo16(txSec) - 65536 ELSE Lo16(txSec)

\* x / 1000 of a uint32_t x
UDivThousand(x) ==
  IF x >= 0
    THEN x \div 1000
    ELSE LET a == x - MinInt
         IN  2147483 + (a \div 1000) + (((a % 1000) + 648) \div 1000)

\* utcTime = ntpTime - SEVENTYYEARS + delaySeconds, where
\* delaySeconds = (millis() - lastUpdate) / 1000
NTP2cpp_utcTime(t) ==
  WrapAdd(WrapSub(t, SEVENTYYEARS), UDivThousand(WrapSub(now, lastUpdate)))

\* bool NTP2::checkValid() of NTP2.cpp, on the datagram read
NTP2cpp_checkValid(q) ==
  ~ \/ q.stratum < 1
    \/ q.stratum > 15
    \/ q.reftsSec = 0
    \/ q.rcvtsSec = 0
    \/ ULT(q.txSec, q.rcvtsSec)

\* NTPStatus NTP2::badRead() of NTP2.cpp
NTP2cpp_badRead ==
  /\ activeInterval' = retryDelayValue
  /\ ntpSt' = NTP_BAD_PACKET

\* The branch of update() that runs processNTPResponse(), on a build whose
\* int has w bits; f is the force flag.
NTP2cpp_process(op, f, w) ==
  LET q == Head(rx).data
      k == NTP2cpp_kodIndex(q.refid)
      t == NTP2cpp_ntpTime(w, q.txSec)
  IN
  /\ requestTimestamp' = 0
  /\ rx' = IF rx = <<>> THEN rx ELSE Tail(rx)
  /\ outstanding' = 0
  /\ force' = f
  /\ IF NTP2cpp_size # NTP_PACKET_SIZE
       THEN /\ NTP2cpp_badRead
            /\ ret' = [op |-> op, status |-> NTP_BAD_PACKET, did |-> "bad"]
            /\ UNCHANGED <<lastResponseMillis, latch, lastSync>>
       ELSE IF q.stratum = 0
         THEN IF k # 0
                THEN /\ ret' = [op |-> op, status |-> NTP2h_kodLookup[k].ret,
                                did |-> "kod"]
                     /\ UNCHANGED <<activeInterval, ntpSt, lastResponseMillis,
                                    latch, lastSync>>
                ELSE /\ activeInterval' = retryDelayValue
                     /\ ntpSt' = NTP_UNKNOWN_KOD
                     /\ ret' = [op |-> op, status |-> NTP_UNKNOWN_KOD, did |-> "kod"]
                     /\ UNCHANGED <<lastResponseMillis, latch, lastSync>>
         ELSE /\ ntpTime' = t
              /\ utcTime' = NTP2cpp_utcTime(t)
              /\ IF NTP2cpp_checkValid(q)
                   THEN /\ activeInterval' = RestoreInterval(activeInterval, defaultInterval)
                        /\ ntpSt' = NTP_CONNECTED
                        /\ lastResponseMillis' = now
                        /\ pendingGood' = TRUE
                        /\ ret' = [op |-> op, status |-> NTP_IDLE, did |-> "good"]
                        /\ lastSync' = [synced |-> TRUE, at |-> now,
                                        utc |-> NTP2cpp_utcTime(t),
                                        delivered |-> 0]
                   ELSE /\ NTP2cpp_badRead
                        /\ ret' = [op |-> op, status |-> NTP_BAD_PACKET, did |-> "bad"]
                        /\ UNCHANGED <<lastResponseMillis, pendingGood, lastSync>>
  /\ UNCHANGED <<now, defaultInterval, responseDelayValue, retryDelayValue,
                 lastUpdate, later, ntpRequest, sentAt, sentDelay, afterKod,
                 ticks, reads>>

\* void NTP2::init() of NTP2.cpp: byte 0 = 0xE3, and bytes 2, 3 and 12-15
\* are not zero; no token is written.
NTP2cpp_init ==
  ntpRequest' = [Request(227, 0, 0) EXCEPT !.restZero = FALSE]

\* NTPStatus NTP2::sendNTPRequest() of NTP2.cpp: the results of the
\* transport are not tested.
NTP2cpp_sendNTPRequest(op) ==
  /\ pendingGood' = FALSE
  /\ utcTime' = 0
  /\ lastUpdate' = now
  /\ NTP2cpp_init
  /\ requestTimestamp' = Marker(now)
  /\ force' = FALSE
  /\ ntpSt' = NTP_IDLE
  /\ ret' = [op |-> op, status |-> NTP_IDLE, did |-> "send"]
  /\ outstanding' = IF outstanding < MaxOutstanding
                      THEN outstanding + 1 ELSE outstanding
  /\ sentAt' = now
  /\ UNCHANGED <<now, timing, lastResponseMillis, later, ntpTime, rx,
                 sentDelay, afterKod, lastSync, ticks, reads>>

\* The note of the last valid response, after one more call has returned
\* NTP_CONNECTED: the calls are counted up to MaxDelivered.
Delivered ==
  IF lastSync.synced /\ lastSync.delivered < MaxDelivered
    THEN [lastSync EXCEPT !.delivered = @ + 1]
    ELSE lastSync

\* An update() that returns NTP_CONNECTED and leaves the latch set: not
\* what the code does; C22 tells the two apart.
NTP2cpp_deliverKeepsLatch(op, f) ==
  /\ ntpSt' = NTP_CONNECTED
  /\ force' = f
  /\ ret' = [op |-> op, status |-> NTP_CONNECTED, did |-> "deliver"]
  /\ lastSync' = Delivered
  /\ UNCHANGED <<now, timing, lastUpdate, requestTimestamp, lastResponseMillis,
                 later, ntpRequest, latch, rx, outstanding, sentAt,
                 sentDelay, afterKod, ticks, reads>>

\* if (pendingGood) { pendingGood = false; ntpSt = NTP_CONNECTED; return ntpSt; }
NTP2cpp_deliver(op, f) ==
  /\ pendingGood' = FALSE
  /\ ntpSt' = NTP_CONNECTED
  /\ force' = f
  /\ ret' = [op |-> op, status |-> NTP_CONNECTED, did |-> "deliver"]
  /\ lastSync' = Delivered
  /\ UNCHANGED <<now, timing, lastUpdate, requestTimestamp, lastResponseMillis,
                 later, ntpRequest, utcTime, ntpTime, rx, outstanding, sentAt,
                 sentDelay, afterKod, ticks, reads>>

\* A call that returns NTP_IDLE and does nothing else
NTP2cpp_idle(op, f, did) ==
  /\ force' = f
  /\ ret' = [op |-> op, status |-> NTP_IDLE, did |-> did]
  /\ UNCHANGED <<now, timing, lastUpdate, requestTimestamp, lastResponseMillis,
                 later, ntpSt, ntpRequest, latch, rx, outstanding, sentAt,
                 sentDelay, afterKod, lastSync, ticks, reads>>

\* millis() - since >= interval, in uint32_t
NTP2cpp_Elapsed(since, interval) == ~ULT(WrapSub(now, since), interval)

\* NTPStatus NTP2::update() of NTP2.cpp, called for op with the force flag f
NTP2cpp_updateBody(op, f) ==
  IF pendingGood
    THEN NTP2cpp_deliver(op, f)
    ELSE IF requestTimestamp # 0
      THEN IF NTP2cpp_Elapsed(requestTimestamp, responseDelayValue)
             THEN \E w \in IntBits : NTP2cpp_process(op, f, w)
             ELSE NTP2cpp_idle(op, f, "wait")
      ELSE IF NTP2cpp_Elapsed(lastUpdate, activeInterval)
             THEN NTP2cpp_sendNTPRequest(op)
             ELSE NTP2cpp_idle(op, f, "idle")

NTP2cpp_update == NTP2cpp_updateBody("update", force)

\* NTPStatus NTP2::forceUpdate() of NTP2.cpp
NTP2cpp_forceUpdate ==
  IF requestTimestamp # 0
    THEN /\ ntpSt' = NTP_BAD_PACKET
         /\ ret' = [op |-> "forceUpdate", status |-> NTP_BAD_PACKET, did |-> "reject"]
         /\ UNCHANGED <<now, timing, lastUpdate, requestTimestamp,
                        lastResponseMillis, later, force, ntpRequest, latch, rx,
                        outstanding, sentAt, sentDelay, afterKod, lastSync,
                        ticks, reads>>
    ELSE NTP2cpp_updateBody("forceUpdate", TRUE)

\* time_t NTP2::epoch() of NTP2.cpp
NTP2cpp_epoch == utcTime

\* The amounts by which millis() advances: the response timeout, the retry
\* delay, the poll interval of NTP2.h.
NTP2cpp_Deltas == {NTP_RESPONSE_DELAY, NTP_RETRY_DELAY, NTP2h_NTP_POLL_INTERVAL}

NTP2cpp_Advance == \E d \in NTP2cpp_Deltas : Tick(d)

\* Transmit Timestamp seconds of 2024-01-01 00:00:00 UTC (0xE93C9700, whose
\* low half has its top bit set) and of one hour later (0xE93CA510).
NTP2cpp_Secs == {UL(3913, 56000), UL(3913, 59600)}

\* The datagrams NTP2.cpp is sent: valid replies; one of an unsynchronised
\* server (stratum 16); one received after it was sent; one without a
\* Reference Timestamp; a RATE, an UNKN and an unlisted Kiss-o'-Death; a
\* truncated datagram; a valid reply followed by 256 bytes of extensions.
NTP2cpp_Arrivals ==
  {NTP2cpp_Datagram(48, 1, <<NUL,NUL,NUL,NUL>>, s, s, s) : s \in NTP2cpp_Secs}
  \cup {NTP2cpp_Datagram(48, 16, <<NUL,NUL,NUL,NUL>>, 1, 1, UL(3913, 56000)),
        NTP2cpp_Datagram(48, 1, <<NUL,NUL,NUL,NUL>>, 1, UL(3913, 56001), UL(3913, 56000)),
        NTP2cpp_Datagram(48, 1, <<NUL,NUL,NUL,NUL>>, 0, 1, UL(3913, 56000)),
        NTP2cpp_Datagram(48, 0, <<"R","A","T","E">>, 0, 0, 0),
        NTP2cpp_Datagram(48, 0, <<"U","N","K","N">>, 0, 0, 0),
        NTP2cpp_Datagram(48, 0, <<"Z","Z","Z","Z">>, 0, 0, 0),
        NTP2cpp_Datagram(40, 1, <<NUL,NUL,NUL,NUL>>, 1, 1, UL(3913, 56000)),
        NTP2cpp_Datagram(304, 1, <<NUL,NUL,NUL,NUL>>, 1, 1, UL(3913, 56000))}

\* A datagram arrives when the response timeout has elapsed, just before
\* the update() call that reads it.
NTP2cpp_Receive ==
  /\ rx = <<>>
  /\ Pending
  /\ NTP2cpp_Elapsed(requestTimestamp, responseDelayValue)
  /\ \E p \in NTP2cpp_Arrivals : Deliver(p)

\* The object of NTP2.h after construction.
NTP2cpp_Init ==
  /\ now \in StartClocks
  /\ defaultInterval = NTP2h_NTP_POLL_INTERVAL
  /\ activeInterval = NTP2h_NTP_POLL_INTERVAL
  /\ responseDelayValue = NTP_RESPONSE_DELAY
  /\ retryDelayValue = NTP_RETRY_DELAY
  /\ utcTime = 0
  /\ lastUpdate = 0
  /\ ntpTime = 0
  /\ requestTimestamp = 0
  /\ lastResponseMillis = 0
  /\ force = FALSE
  /\ ntpSt = NTP_BAD_PACKET
  /\ pendingGood = FALSE
  /\ ntpRequest = [Request(227, 0, 0) EXCEPT !.restZero = FALSE]
  /\ reqTxSec = 0
  /\ reqTxFrac = 0
  /\ lastSyncMillis = 0
  /\ ntpTimeSeconds = 0
  /\ ntpMillisAtSync = Millis64(0, 0)
  /\ rx = <<>>
  /\ ret = NoRet
  /\ outstanding = 0
  /\ sentAt = 0
  /\ sentDelay = 0
  /\ afterKod = FALSE
  /\ lastSync = NoSync
  /\ ticks = 0
  /\ reads = <<>>

\* NTP2.cpp polled and forced: begin(), update() and forceUpdate() called
\* as the clock advances and datagrams arrive.
NTP2cpp_Next ==
  \/ rx = <<>> /\ begin
  \/ NTP2cpp_update
  \/ NTP2cpp_forceUpdate
  \/ NTP2cpp_Advance
  \/ NTP2cpp_Receive

NTP2cpp_Spec == NTP2cpp_Init /\ [][NTP2cpp_Next]_vars

\* ------------------------------------------------------------------------
\* Properties
\* ------------------------------------------------------------------------

\* The step is an update() call that ran processNTPResponse(): only that
\* clears the marker of the outstanding request.
Processed == requestTimestamp # 0 /\ requestTimestamp' = 0

\* The datagram processNTPResponse() keeps of the queue, and whether it
\* found one.
Kept == Drain(rx, ZeroQuery, FALSE)

\* C1: at most one request is ever outstanding: no second request is
\* transmitted before the response to the first has been processed,
\* whatever the clock read when the first was sent.
C1_SingleOutstanding == outstanding <= 1

\* C2: forceUpdate() called while a request is outstanding returns
\* NTP_BAD_PACKET, changes no field of the object and neither sends nor
\* reads on the transport.
C2_ForceUpdateRejected ==
  [][(outstanding > 0 /\ forceUpdate)
       => /\ ret'.status = NTP_BAD_PACKET
          /\ UNCHANGED <<object, rx, outstanding, sentAt>>]_vars

\* The header fields of a datagram, as RFC 5905 lays them out.
LeapOf(q) == q.b0 \div 64

VersionOf(q) == (q.b0 \div 8) % 8

ModeOf(q) == q.b0 % 8

\* A Kiss-o'-Death: stratum 0 with mode 4 or 5.
KissOfDeath(q) == q.stratum = 0 /\ ModeOf(q) \in {4, 5}

\* The Originate Timestamp echoes the token of the request in flight.
Echoes(q) == q.orgSec = reqTxSec /\ q.orgFrac = reqTxFrac

\* C3 as claimed: a processed response whose Originate Timestamp differs from
\* the token of the outstanding request yields NTP_BAD_PACKET, whatever its
\* other fields are, stratum 0 with mode 4 or 5 included.
C3_MismatchAlwaysBad ==
  [][(Processed /\ Kept.gotPacket /\ ~Echoes(Kept.buf))
       => ret'.status = NTP_BAD_PACKET]_vars

\* C3, amended: a processed response that is not a Kiss-o'-Death and whose
\* Originate Timestamp differs from the token of the outstanding request
\* yields NTP_BAD_PACKET; a Kiss-o'-Death yields its Kod status whatever its
\* Originate Timestamp is.
C3_MismatchBadUnlessKod ==
  [][(Processed /\ Kept.gotPacket /\ ~Echoes(Kept.buf))
       => IF KissOfDeath(Kept.buf)
            THEN IsKodStatus(ret'.status)
            ELSE ret'.status = NTP_BAD_PACKET]_vars

\* C3's case has happened: a response that is no Kiss-o'-Death was rejected
\* for its Originate Timestamp.
C3_Witness == ret.did = "mismatch" /\ ret.status = NTP_BAD_PACKET

\* Every condition C4 lists for the datagram kept.
Acceptable(k) ==
  /\ k.gotPacket
  /\ ~KissOfDeath(k.buf)
  /\ Echoes(k.buf)
  /\ LeapOf(k.buf) # 3
  /\ VersionOf(k.buf) \in {3, 4}
  /\ ModeOf(k.buf) \in {4, 5}
  /\ k.buf.stratum \in 1..15
  /\ k.buf.txSec # 0

\* C4: an update() call that processes a response returns NTP_CONNECTED
\* exactly when a complete datagram was found that is no Kiss-o'-Death,
\* echoes the token, and has LI # 3, version 3 or 4, mode 4 or 5, stratum
\* 1..15 and Transmit Timestamp seconds # 0; it returns NTP_BAD_PACKET in
\* every other case that is no Kiss-o'-Death.
C4_ConnectedIffValid ==
  [][Processed
       => /\ (ret'.status = NTP_CONNECTED) <=> Acceptable(Kept)
          /\ (~Acceptable(Kept) /\ ~(Kept.gotPacket /\ KissOfDeath(Kept.buf)))
               => ret'.status = NTP_BAD_PACKET]_vars

\* C4's case has happened: a response that meets every condition was
\* processed and accepted.
C4_Witness == ret.did = "accept" /\ ret.status = NTP_CONNECTED

\* The Kod status of each Kiss Code.
KissCodes ==
  { <<<<"R","A","T","E">>, NTP_KOD_RATE>>, <<<<"D","E","N","Y">>, NTP_KOD_DENY>>,
    <<<<"A","C","S","T">>, NTP_KOD_ACST>>, <<<<"A","U","T","H">>, NTP_KOD_AUTH>>,
    <<<<"A","U","T","O">>, NTP_KOD_AUTO>>, <<<<"B","C","S","T">>, NTP_KOD_BCST>>,
    <<<<"C","R","Y","P">>, NTP_KOD_CRYP>>, <<<<"D","R","O","P">>, NTP_KOD_DROP>>,
    <<<<"R","S","T","R">>, NTP_KOD_RSTR>>, <<<<"I","N","I","T">>, NTP_KOD_INIT>>,
    <<<<"M","C","S","T">>, NTP_KOD_MCST>>, <<<<"N","K","E","Y">>, NTP_KOD_NKEY>>,
    <<<<"N","T","S","N">>, NTP_KOD_NTSN>>, <<<<"R","M","O","T">>, NTP_KOD_RMOT>>,
    <<<<"S","T","E","P">>, NTP_KOD_STEP>> }

ExpectedKod(refid) ==
  IF \E kc \in KissCodes : kc[1] = refid
    THEN (CHOOSE kc \in KissCodes : kc[1] = refid)[2]
    ELSE NTP_UNKNOWN_KOD

\* C5: a processed response with stratum 0 and mode 4 or 5 yields the Kod
\* status of its four reference id bytes when they are one of the 15 Kiss
\* Codes and NTP_UNKNOWN_KOD for every other value; a stratum 0 response
\* of another mode is never reported as a Kiss-o'-Death.
C5_KodMapping ==
  [][(Processed /\ Kept.gotPacket /\ Kept.buf.stratum = 0)
       => IF ModeOf(Kept.buf) \in {4, 5}
            THEN ret'.status = ExpectedKod(Kept.buf.refid)
            ELSE ~IsKodStatus(ret'.status)]_vars

\* C5's case has happened: a Kiss-o'-Death with a known code was reported.
C5_Witness == ret.did = "kod" /\ ret.status = NTP_KOD_STEP

\* C6: after update() has returned a Kod status or NTP_UNKNOWN_KOD, the
\* active polling interval is the retry interval, and stays so over every
\* following update() and forceUpdate() call until one returns
\* NTP_CONNECTED.
C6_KodBackoff == afterKod => activeInterval = retryDelayValue

\* C6's case has happened: a Kiss-o'-Death was returned and a later call
\* has sent the next request.
C6_Witness == afterKod /\ ret.did = "send"

\* The response timeout has elapsed since the last request was transmitted.
TimedOut == ~ULT(WrapSub(now, sentAt), responseDelayValue)

\* C7: every failed response processing (no complete datagram, Originate
\* Timestamp mismatch, failed header check) makes update() return
\* NTP_BAD_PACKET with the active interval equal to the retry interval; in
\* particular, once a request has been sent and no response arrives, the
\* first update() after the response timeout returns NTP_BAD_PACKET with the
\* active interval equal to the retry interval.
C7_FailureBacksOff ==
  [][/\ (Processed /\ ~Acceptable(Kept) /\ ~(Kept.gotPacket /\ KissOfDeath(Kept.buf)))
          => (ret'.status = NTP_BAD_PACKET /\ activeInterval' = retryDelayValue')
     /\ (update /\ outstanding > 0 /\ rx = <<>> /\ TimedOut)
          => (ret'.status = NTP_BAD_PACKET /\ activeInterval' = retryDelayValue')]_vars

\* epoch() still is what it was when the last response was accepted, plus
\* the seconds elapsed since, within the rounding of the sub-second part.
Continuity ==
  \A b \in Builds :
    (lastSync.synced /\ lastSync.epoch[b] # 0)
      => (epoch(b) - lastSync.epoch[b])
           \in {WrapSub(now, lastSync.at) \div 1000,
                WrapSub(now, lastSync.at) \div 1000 + 1}

\* C8: only an update() call that returns NTP_CONNECTED changes the Sync
\* Record; every other operation (a failed poll, a Kiss-o'-Death, a send, a
\* wait, a rejected forceUpdate, a failed transmission) leaves it as it is,
\* so that epoch() goes on from the time of the last accepted response.
C8_SyncRecordKept ==
  /\ [][(syncRecord' # syncRecord)
          => (Processed /\ ret'.status = NTP_CONNECTED)]_vars
  /\ []Continuity

\* C8's case has happened: after an accepted response a poll has failed, and
\* epoch() has gone on by the time elapsed.
C8_Witness ==
  /\ lastSync.synced
  /\ ret.did = "nopacket"
  /\ lastSync.epoch["i64"] # 0
  /\ epoch("i64") >= lastSync.epoch["i64"] + 30

\* C9: whenever update() returns NTP_CONNECTED the active polling interval
\* is the default poll interval afterwards.
C9_IntervalRestored ==
  [][(Processed /\ ret'.status = NTP_CONNECTED)
       => activeInterval' = defaultInterval']_vars

\* C9's case has happened: a response was accepted while the active interval
\* was the retry interval.
C9_Witness ==
  /\ ret.status = NTP_CONNECTED
  /\ lastSync.from = retryDelayValue
  /\ lastSync.from # defaultInterval
  /\ activeInterval = defaultInterval

\* S - 2208988800 lies in [2000-01-01, 2100-01-01).
Plausible(S) ==
  /\ ~ULT(S, SEVENTYYEARS)
  /\ ~ULT(WrapSub(S, SEVENTYYEARS), MIN_OK)
  /\ ULT(WrapSub(S, SEVENTYYEARS), MAX_OK)

\* C10: after a response with Transmit Timestamp seconds S (S - 2208988800
\* in 2000..2100) and fraction 0 was accepted, epoch() returns
\* S - 2208988800 + floor(elapsedMs / 1000), whatever the clock read when the
\* response was accepted.
C10_EpochAfterSync ==
  \A b \in Builds :
    (lastSync.synced /\ lastSync.txFrac = 0 /\ Plausible(lastSync.txSec))
      => epoch(b) = WrapAdd(WrapSub(lastSync.txSec, SEVENTYYEARS),
                            WrapSub(now, lastSync.at) \div 1000)

\* The accessor calls made so far that were calls of epoch() on the Sync
\* Record of the last accepted response.
EpochReads ==
  {i \in 1..Len(reads) :
     reads[i].op = "epoch" /\ lastSync.synced /\ reads[i].record = syncRecord}

\* The clock time from the last accepted response to the call r, modulo 2^32.
Since(r) == WrapSub(r.at, lastSync.at)

\* floor((ms + e) / 1000) for ms < 1000 and 0 <= e < 2^31
WholeSeconds(ms, e) == (e \div 1000) + (((e % 1000) + ms) \div 1000)

\* The Unix time u lies in [2000-01-01, 2100-01-01).
InRange(u) == ~ULT(u, MIN_OK) /\ ULT(u, MAX_OK)

\* What epoch() is to return at the call r on build b: what it returned
\* right after the response was accepted, plus the whole seconds that the
\* synced milliseconds and the time elapsed add up to.
Advanced(b, r) ==
  WrapAdd(lastSync.epoch[b],
          WholeSeconds(FracMillis(lastSync.txFrac), Since(r)))

\* C11: when the 32-bit clock has wrapped between the acceptance of a
\* response and a call of epoch() (accepted at 0xFFFFFFF0, called at 0x10 or
\* later), epoch() has advanced by the time truly elapsed: by the whole
\* seconds of the elapsed milliseconds added to the synced milliseconds.
C11_WrapSafe ==
  \A i \in EpochReads, b \in Builds :
    (/\ lastSync.at < 0
     /\ reads[i].at >= 0
     /\ Since(reads[i]) >= 0
     /\ lastSync.epoch[b] # 0
     /\ InRange(Advanced(b, reads[i])))
      => reads[i].value[b] = Advanced(b, reads[i])

\* C11's case has happened: a response was accepted at 0xFFFFFFF0, the clock
\* has wrapped, and epoch() was called a second later.
C11_Witness ==
  \E i \in EpochReads :
    /\ lastSync.at = -16
    /\ reads[i].at = 984
    /\ lastSync.epoch["i64"] # 0
    /\ reads[i].value["i64"] = lastSync.epoch["i64"] + 1

\* floor((ms + u) / 1000) for ms < 1000 and the unsigned 32-bit u whose
\* image is e: for e < 0, u = 2^31 + (e + 2^31) and 2^31 = 2147483 * 1000 + 648.
UWholeSeconds(ms, e) ==
  IF e >= 0
    THEN WholeSeconds(ms, e)
    ELSE LET y == e - MinInt
         IN  2147483 + (y \div 1000) + (((y % 1000) + 648 + ms) \div 1000)

\* The Transmit Timestamp seconds S of the last accepted response are not
\* below 2208988800.
Dated == ~ULT(lastSync.txSec, SEVENTYYEARS)

\* The Unix time of the last accepted response, S - 2208988800, plus k seconds.
SyncedPlus(k) == WrapAdd(WrapSub(lastSync.txSec, SEVENTYYEARS), k)

\* The clock time since the last accepted response, modulo 2^32.
SinceSync == WrapSub(now, lastSync.at)

\* C12 as the claim has it: while the Sync Record is that of the last
\* accepted response, epoch() is the synced time plus the time elapsed since
\* the sync, whatever that time is (any clock difference modulo 2^32), and
\* is not below what an earlier call of epoch() returned, provided the
\* result lies in the plausible range.
C12_AdvancesForever ==
  \A b \in Builds :
    LET expected == SyncedPlus(UWholeSeconds(FracMillis(lastSync.txFrac), SinceSync))
    IN  (lastSync.synced /\ Dated /\ InRange(expected))
          => /\ epoch(b) = expected
             /\ \A i \in EpochReads : ~ULT(epoch(b), reads[i].value[b])

\* C12, within 2^31 ms of the sync: while the Sync Record is that of the
\* last accepted response and the clock is less than 2^31 ms past the
\* reading at sync, epoch() is the synced time plus the time elapsed since
\* the sync, and is not below what an earlier call of epoch() returned,
\* provided the result lies in the plausible range.
C12_AdvancesWithin ==
  \A b \in Builds :
    LET expected == SyncedPlus(WholeSeconds(FracMillis(lastSync.txFrac), SinceSync))
    IN  (lastSync.synced /\ SinceSync >= 0 /\ Dated /\ InRange(expected))
          => /\ epoch(b) = expected
             /\ \A i \in EpochReads :
                  (Since(reads[i]) >= 0 /\ Since(reads[i]) <= SinceSync)
                    => ~ULT(epoch(b), reads[i].value[b])

\* C12's case has happened: epoch() was called when the response was
\* accepted, and 2^31 - 1 ms later it is 2147483 seconds on.
C12_Witness ==
  \E i \in EpochReads :
    /\ Since(reads[i]) = 0
    /\ SinceSync = MaxInt
    /\ reads[i].value["i64"] # 0
    /\ epoch("i64") = reads[i].value["i64"] + 2147483

\* The whole seconds that epoch() adds at the call r: those of the synced
\* milliseconds plus the elapsed time, a negative elapsed time taken for 0.
SecondsAt(r) ==
  WholeSeconds(FracMillis(lastSync.txFrac),
               IF Since(r) < 0 THEN 0 ELSE Since(r))

\* The Unix time computed at the call r, S + seconds - 2208988800, is
\* negative: S and S + seconds are both below 2208988800.
Before1970(r) ==
  /\ ULT(lastSync.txSec, SEVENTYYEARS)
  /\ ULT(WrapAdd(lastSync.txSec, SecondsAt(r)), SEVENTYYEARS)

\* The Unix time computed at the call r, when it is not negative (it is
\* below 2^32 then).
Computed(r) == SyncedPlus(SecondsAt(r))

\* C13: every call of epoch() returns the computed Unix time if that lies in
\* [946684800, 4102444800), and 0 if it lies outside, whatever Transmit
\* Timestamp seconds were accepted, values below 2208988800 included.
C13_PlausibilityGuard ==
  \A i \in EpochReads, b \in Builds :
    reads[i].value[b] =
      IF ~Before1970(reads[i]) /\ InRange(Computed(reads[i]))
        THEN Computed(reads[i])
        ELSE 0

\* C13 on a build with a 64-bit signed time_t
C13_OnI64 ==
  \A i \in EpochReads :
    reads[i].value["i64"] =
      IF ~Before1970(reads[i]) /\ InRange(Computed(reads[i]))
        THEN Computed(reads[i])
        ELSE 0

\* C14: timestamps are handled correctly through February 2106: for every
\* accepted Transmit Timestamp seconds S of the 32-bit NTP range, era 0
\* (S >= 2208988800: Unix time S - 2208988800, up to February 2036) and
\* beyond (S < 2208988800: Unix time S + 2^32 - 2208988800, up to February
\* 2106), every call of epoch() returns that Unix time plus the seconds
\* elapsed.  Stated for the Unix times from 2000-01-01 on: earlier ones are
\* what the plausibility guard is to reject.
C14_CorrectThrough2106 ==
  \A i \in EpochReads, b \in Builds :
    ~ULT(Computed(reads[i]), MIN_OK)
      => reads[i].value[b] = Computed(reads[i])

\* C15: an update() call made while a request is outstanding and the
\* response timeout has not elapsed since it was sent returns NTP_IDLE and
\* changes nothing: no field of the object, nothing read from or written to
\* the transport.
C15_WaitIsIdle ==
  [][(update /\ outstanding > 0 /\ ~TimedOut)
       => /\ ret'.status = NTP_IDLE
          /\ object' = object
          /\ rx' = rx
          /\ outstanding' = outstanding]_vars

\* The step is an update() call that finds no request outstanding and a
\* request due (the force flag set or the active interval elapsed since
\* lastUpdate), or a forceUpdate() call that finds no request outstanding.
DueCall ==
  /\ outstanding = 0
  /\ \/ update /\ (force \/ Elapsed(lastUpdate, activeInterval))
     \/ forceUpdate

\* The request was transmitted and is recorded as outstanding, sent now.
SentNow ==
  /\ ret'.status = NTP_IDLE
  /\ requestTimestamp' = now
  /\ sentAt' = now
  /\ outstanding' = 1
  /\ ~force'

\* C16 as the claim has it: every due call emits a request, records it as
\* outstanding with the send time now, clears the force flag and returns
\* NTP_IDLE, whatever the transport's send operations report.
C16_AlwaysSends == [][DueCall => SentNow]_vars

\* C16, with the transport's report: every due call builds a request
\* (lastUpdate and the request token are set to now) and hands it to the
\* transport; when the send operations all succeed it records the request
\* with the send time now, clears the force flag and returns NTP_IDLE; when
\* one fails it returns NTP_BAD_PACKET, records no request and leaves the
\* force flag as it was on entry to update() (set, for forceUpdate()).
C16_SendsOrReports ==
  [][DueCall =>
       /\ lastUpdate' = now
       /\ reqTxSec' = now /\ reqTxFrac' = 0
       /\ \/ ret'.did = "send" /\ SentNow
          \/ /\ ret'.did = "sendfail"
             /\ ret'.status = NTP_BAD_PACKET
             /\ ntpSt' = NTP_BAD_PACKET
             /\ requestTimestamp' = 0
             /\ outstanding' = 0
             /\ force' = (force \/ ret'.op = "forceUpdate")]_vars

\* C16's case has happened: a forceUpdate() found no request outstanding,
\* the transport refused the datagram, and the force flag is still set.
C16_Witness ==
  /\ ret.op = "forceUpdate"
  /\ ret.did = "sendfail"
  /\ ret.status = NTP_BAD_PACKET
  /\ force
  /\ outstanding = 0

\* C17: responseDelay(), retryDelay() and updateInterval(), called while a
\* request is outstanding, do not move the moment at which its response is
\* processed: an update() call processes the response of the recorded
\* request exactly if now is at or after the send time plus the response
\* timeout that was configured when the request was sent.
C17_TimeoutFixedAtSend ==
  [][(update /\ Pending)
       => (Processed <=> ~ULT(WrapSub(now, sentAt), sentDelay))]_vars

\* C18: begin(), called in any state, leaves no request outstanding (the
\* marker is cleared), transmits nothing itself, and makes the very next
\* update() transmit a request (no marker, force flag set).
C18_BeginClears ==
  [][begin => (/\ ~Pending'
               /\ force'
               /\ outstanding' = outstanding
               /\ rx' = rx)]_vars

\* C19: epoch(), timestamp() and ntpStat() are pure reads: a call of any of
\* them leaves every field of the object, the transport and the clock as
\* they are.
C19_PureReads ==
  [][(Epoch \/ Timestamp \/ NtpStat)
       => (object' = object /\ rx' = rx /\ now' = now
           /\ outstanding' = outstanding)]_vars

\* C19's case has happened: epoch() was called on a Sync Record and returned
\* a time, while the next request was outstanding.
C19_Witness ==
  \E i \in EpochReads :
    /\ reads[i].value["i64"] # 0
    /\ Pending
    /\ ret.did = "send"

\* C20: ntpStat() returns true in every state reached after an update()
\* returned NTP_CONNECTED (the Sync Record is held from then on), also after
\* the next request was sent and while its response is awaited, and false
\* before the first accepted response.
C20_NtpStatWhileSynced == ntpStat <=> lastSync.synced

NTP2cpp_Call == NTP2cpp_update \/ (~Pending /\ NTP2cpp_forceUpdate)

\* C22: in NTP2.cpp, the first update() call after a valid response was
\* processed returns NTP_CONNECTED, no other call does (never twice for one
\* response, never without a valid response), and the calls after it return
\* NTP_IDLE while no new request is pending.
C22_ConnectedOnce ==
  /\ [](lastSync.synced => lastSync.delivered <= 1)
  /\ [](ret.status = NTP_CONNECTED => lastSync.synced /\ lastSync.delivered = 1)
  /\ [][/\ NTP2cpp_Call /\ lastSync.synced /\ lastSync.delivered = 0
           => ret'.status = NTP_CONNECTED
        /\ NTP2cpp_Call /\ ~Pending /\ lastSync.synced /\ lastSync.delivered = 1
           => ret'.status = NTP_IDLE]_vars

\* NTP_CONNECTED has been returned for a valid response, and the update()
\* call after it has returned NTP_IDLE without sending.
C22_Witness ==
  /\ lastSync.synced
  /\ lastSync.delivered = 1
  /\ ret = [op |-> "update", status |-> NTP_IDLE, did |-> "idle"]

\* C23: in NTP2.cpp, a forceUpdate() call that finds no request pending
\* transmits a request during that call, however little time has elapsed
\* since the last request was sent.
C23_ForceSendsNow ==
  [][~Pending /\ NTP2cpp_forceUpdate => ret'.did = "send"]_vars

\* C24: in NTP2.cpp, once a response has passed checkValid(), epoch()
\* returns the value computed from the most recent such response; neither
\* sending a request nor processing a response that fails checkValid()
\* changes it.
C24_EpochIsLastValid ==
  lastSync.synced => NTP2cpp_epoch = lastSync.utc

\* C25: with the timing configuration left alone while a request is in
\* flight, no update() call made less than responseDelayValue ms (as a
\* uint32_t) after the request was transmitted reads the response.
C25_NotBeforeTimeout ==
  [][Processed => ~ULT(WrapSub(now, sentAt), responseDelayValue)]_vars

\* The last call was an update() that read the response to the request
\* transmitted at sentAt.
ReadLast ==
  /\ ret.op = "update"
  /\ ret.did \notin {"none", "idle", "wait", "send", "sendfail", "reject"}

\* C26: an update() call made with no request in flight, the force flag
\* clear and less than activeInterval ms (as a uint32_t) elapsed since the
\* last request was sent transmits nothing and returns NTP_IDLE.
C26_NotBeforeInterval ==
  [][/\ update
     /\ outstanding = 0
     /\ ~force
     /\ ReadLast
     /\ lastUpdate = sentAt
     /\ ULT(WrapSub(now, sentAt), activeInterval)
     => ret' = [op |-> "update", status |-> NTP_IDLE, did |-> "idle"]]_vars

\* The datagrams of the queue that have n bytes or more, in order of arrival.
AtLeast(n) == SelectSeq(rx, LAMBDA p : p.size >= n)

\* The datagrams of the queue that have exactly NTP_PACKET_SIZE bytes.
Exactly48 == SelectSeq(rx, LAMBDA p : p.size = NTP_PACKET_SIZE)

\* The status that the datagram q alone calls for.
StatusOf(q) ==
  IF KissOfDeath(q)
    THEN ExpectedKod(q.refid)
    ELSE IF Acceptable([gotPacket |-> TRUE, buf |-> q])
           THEN NTP_CONNECTED
           ELSE NTP_BAD_PACKET

\* The update() call empties the queue, and returns NTP_BAD_PACKET when c
\* is empty and otherwise what the last datagram of c alone calls for,
\* taking the time it sets from that datagram.
DecidedByLast(c) ==
  /\ rx' = <<>>
  /\ IF c = <<>>
       THEN ret'.status = NTP_BAD_PACKET /\ ret'.did = "nopacket"
       ELSE /\ ret'.status = StatusOf(c[Len(c)].data)
            /\ ret'.status = NTP_CONNECTED
                 => /\ ntpTimeSeconds' = c[Len(c)].data.txSec
                    /\ lastSync'.txSec = c[Len(c)].data.txSec

\* C27: an update() call that processes a response consumes every queued
\* datagram and decides by the last one of exactly 48 bytes, datagrams of
\* every other size counting for nothing.
C27_LastOfExactly48 == [][Processed => DecidedByLast(Exactly48)]_vars

\* C27, as the code has it: the call decides by the first 48 bytes of the
\* last datagram of 48 bytes or more; only shorter datagrams count for
\* nothing.
C27_LastOfAtLeast48 == [][Processed => DecidedByLast(AtLeast(NTP_PACKET_SIZE))]_vars

\* The time of the server of 2036 has been set: its reply, 68 bytes queued
\* behind another datagram, was the one the update() call decided by.
C27_Witness ==
  /\ ret.status = NTP_CONNECTED
  /\ lastSync.synced
  /\ lastSync.txSec = -1
  /\ lastSync.txFrac = MinInt
  /\ ntpTimeSeconds = -1

\* The least uint32_t fraction f with f * 1000 >= m * 2^32, for m in 0..999:
\* m * 4294967 + ceil(m * 296 / 1000), as an image.
LeastFractionOf(m) ==
  LET low == m * 967 + ((m * 296 + 999) \div 1000)
      k   == m * 4294 + (low \div 1000)
  IN  UL(k \div 1000, (k % 1000) * 1000 + (low % 1000))

\* m = floor(f * 1000 / 2^32)
IsMillisOf(m, f) ==
  /\ m \in 0..999
  /\ ~ULT(f, LeastFractionOf(m))
  /\ m < 999 => ULT(f, LeastFractionOf(m + 1))

\* C28: an accepted response writes a Sync Record whose sub-second part is
\* floor(fraction * 1000 / 2^32), within 0..999; whose synced milliseconds
\* are seconds * 1000 + that part, the seconds whole and unwrapped; and
\* whose local clock at sync is the clock reading of the accepting call.
C28_SyncRecordWritten ==
  [][(Processed /\ ret'.status = NTP_CONNECTED)
       => LET q == rx[Len(rx)].data
          IN  /\ IsMillisOf(ntpMillisAtSync'.ms, q.txFrac)
              /\ ntpMillisAtSync'.sec = q.txSec
              /\ ntpTimeSeconds' = q.txSec
              /\ lastSyncMillis' = now]_vars

\* A reply of second 2^32 - 1 and fraction 2^32 - 1 has been accepted when
\* the clock read 250: 4294967295999 ms were recorded.
C28_Witness ==
  /\ ret.status = NTP_CONNECTED
  /\ ntpTimeSeconds = -1
  /\ ntpMillisAtSync = Millis64(-1, 999)
  /\ lastSyncMillis = 250

\* The uint32_t whose big-endian bytes are b[1..4], as an image.
WordOf(b) ==
  (IF b[1] >= 128 THEN b[1] - 256 ELSE b[1]) * 16777216
  + b[2] * 65536 + b[3] * 256 + b[4]

\* The request buffer holds a client request of version 4 with the token
\* <<sec, 0>>: 48 bytes, byte 0 = 0x23, bytes 40-43 = sec in big-endian
\* order, bytes 44-47 zero, every other byte zero.
IsRequestOf(sec) ==
  /\ ntpRequest.size = 48
  /\ ntpRequest.b0 = 35
  /\ WordOf(SubSeq(ntpRequest.tx, 1, 4)) = sec
  /\ SubSeq(ntpRequest.tx, 5, 8) = <<0, 0, 0, 0>>
  /\ ntpRequest.restZero

\* C29: every request emitted has 48 bytes, byte 0 = 0x23, the clock reading
\* of the call in bytes 40-43 in big-endian order and zero everywhere else,
\* and the stored token is what bytes 40-47 of the last request emitted
\* hold, up to the call that checks the response against it.
C29_RequestFormat ==
  /\ [][((update \/ forceUpdate) /\ ret'.did = "send")
          => /\ IsRequestOf(now)'
             /\ reqTxSec' = WordOf(SubSeq(ntpRequest'.tx, 1, 4))
             /\ reqTxFrac' = WordOf(SubSeq(ntpRequest'.tx, 5, 8))]_vars
  /\ [](Pending => IsRequestOf(sentAt) /\ reqTxSec = sentAt /\ reqTxFrac = 0)

\* A request has left 250 ms before the clock wraps: bytes 40-43 hold FF FF
\* FF 06.
C29_Witness ==
  /\ ret.did = "send"
  /\ Pending
  /\ ntpRequest.tx = <<255, 255, 255, 6, 0, 0, 0, 0>>

\* C30: whatever the interleaving of update(), forceUpdate() and the
\* setters, the active interval is the default poll interval or the retry
\* interval, as currently configured.
C30_ActiveIsConfigured == activeInterval \in {defaultInterval, retryDelayValue}

====
